---- MODULE Spec2Model ----
(***************************************************************************)
(* Cone Counter: the Express request handlers of the Firestore server     *)
(* (server.ts) over the Database class (src/database.ts).  Every handler  *)
(* is one action; the store is the 'cones' and 'users' collections.       *)
(* The browser (App.tsx, api.ts) is followed where it retries.            *)
(*                                                                         *)
(* Time is counted in whole hours since 1970-01-01T00:00Z.  A stored      *)
(* timestamp is a JSON value: a canonical ISO string (its instant, >= 0), *)
(* an ISO string written with the local zone offset (Zoned), the          *)
(* unparseable string Garbage, the empty string Empty, or Undef.          *)
(* A date string YYYY-MM-DD is its day number since the epoch, a time     *)
(* string HH:MM:SS its hour; "NaN-NaN-NaN" and "NaN:NaN:NaN" are NaN.     *)
(***************************************************************************)
EXTENDS Integers, Sequences, FiniteSets, TLC

\* ---------------------------------------------------------------- bounds
MaxCones == 2     \* documents the store hands out ids for
MaxImport == 1    \* cones in a literal import payload
MaxTicks == 2     \* hours the wall clock is followed past its start
MaxDay == 32      \* local days after 1970-01-01 on which the server is looked at

\* ------------------------------------------------------- value encodings
NaN == -1         \* Invalid Date and every getter of it
Garbage == -2     \* a string new Date() cannot parse (truthy)
Empty == -3       \* the string "" (falsy, unparseable)
Undef == -4       \* undefined: the key is missing
ZoneBase == 100000  \* from here on: strings written with a zone offset
UndefS == "<undefined>"
NullS == "<null>"

Users == {"u1", "u2"}
NoUser == "<nobody>"

TzOffset == 10    \* the server's local zone, hours east of UTC
HoursPerDay == 24
DaysPerWeek == 7
EpochDay == 4     \* 1970-01-01 was a Thursday

\* the hour before local midnight and the local midnight after it:
\* both lie on the same UTC day but on different local days
BeforeMidnight == HoursPerDay - TzOffset - 1
AtMidnight == HoursPerDay - TzOffset
Instants == {BeforeMidnight, AtMidnight}

\* ------------------------------------------------------------- Date API
\* an ISO 8601 string that spells an instant as local wall time with the
\* zone offset, "1970-01-02T00:00:00+10:00" for "1970-01-01T14:00:00.000Z"
Zoned(instant) == ZoneBase + instant
IsZoned(raw) == raw >= ZoneBase

NewDate(raw) ==
  IF IsZoned(raw) THEN raw - ZoneBase
  ELSE IF raw >= 0 THEN raw
  ELSE NaN
IsInvalidDate(d) == d = NaN
Truthy(raw) == raw \notin {Empty, Undef}
TruthyS(s) == s \notin {"", NullS, UndefS}

getDate(d) == IF d = NaN THEN NaN ELSE (d + TzOffset) \div HoursPerDay
getHours(d) == IF d = NaN THEN NaN ELSE (d + TzOffset) % HoursPerDay
getDay(d) == IF d = NaN THEN NaN ELSE (getDate(d) + EpochDay) % DaysPerWeek
getUTCDate(d) == d \div HoursPerDay
getUTCHours(d) == d % HoursPerDay
getUTCDay(d) == (getUTCDate(d) + EpochDay) % DaysPerWeek

days == <<"Sunday", "Monday", "Tuesday", "Wednesday", "Thursday", "Friday", "Saturday">>
DayName(i) == IF i = NaN THEN UndefS ELSE days[i + 1]

\* server.ts formatDateTime: date.toISOString() throws on an Invalid Date
formatDateTime(d) ==
  [throws |-> IsInvalidDate(d),
   timestamp |-> d,
   date |-> getDate(d),
   time |-> getHours(d),
   dayOfWeek |-> DayName(getDay(d))]

\* computeFromTimestamp with the getters of UTC
computeFromTimestampUTC(iso) ==
  LET d == NewDate(iso) IN
  IF d = NaN THEN [date |-> NaN, time |-> NaN, dayOfWeek |-> UndefS]
  ELSE [date |-> getUTCDate(d), time |-> getUTCHours(d), dayOfWeek |-> DayName(getUTCDay(d))]

\* database.ts normalizeDateFields.computeFromTimestamp: never throws
computeFromTimestamp(iso) ==
  LET d == NewDate(iso) IN
  [date |-> getDate(d), time |-> getHours(d), dayOfWeek |-> DayName(getDay(d))]

\* ------------------------------------------------------------------ state
VARIABLES
  cones,     \* the 'cones' collection: document id -> document
  users,     \* the 'users' collection: the uids that have a document
  nextId,    \* the next document id Firestore hands out
  now,       \* the wall clock, an instant
  resp,      \* the last request and the response it got
  norm,      \* a normalizeDateFields run between its query and its commit
  app,       \* the browser's AppContent component: its state and its timer
  call,      \* a ConeAPI call of the browser inside fetchWithRetry
  pend       \* handlers of the server that are between two of their awaits

vars == <<cones, users, nextId, now, resp, norm, app, call, pend>>

Ids == 1..MaxCones
Exists(id) == id \in DOMAIN cones
OwnedBy(u) == {i \in DOMAIN cones : cones[i].userId = u}

Consistent(doc) ==
  LET calc == computeFromTimestamp(doc.timestamp) IN
  /\ doc.date = calc.date
  /\ doc.time = calc.time
  /\ doc.dayOfWeek = calc.dayOfWeek

\* what getCone / getAllCones hand back for a document (no userId)
View(id, doc) ==
  [id |-> id, timestamp |-> doc.timestamp, date |-> doc.date, time |-> doc.time,
   dayOfWeek |-> doc.dayOfWeek, notes |-> doc.notes,
   createdAt |-> doc.createdAt, updatedAt |-> doc.updatedAt]

\* ------------------------------------------------------------- responses
NoStats == [total |-> 0, today |-> 0, thisWeek |-> 0, thisMonth |-> 0,
            perDay |-> <<0, 1>>, perWeek |-> <<0, 1>>, perMonth |-> <<0, 1>>]
NoHist == [hourOfDay |-> <<>>, dayOfWeek |-> <<>>]

\* a request and its response (args: the timestamp of a POST body, the
\* timestamp and the whole of a PUT body, the start and end of a range,
\* what data.cones of an import is): auth is the Authorization header and user
\* the principal in req.user; status and JSON body (error: the body's
\* error / message; cones: the events of the body; isNull: the body is the
\* JSON null; n: importedCount, or the count normalizeDateFields returns;
\* sent: where an import body came from); failed: the upstream call that
\* threw while the request was handled; touched: a store call was made
Reply(op, a, id, status, error, failed) ==
  [op |-> op, auth |-> a.h, user |-> a.uid, touched |-> a.touched, id |-> id,
   status |-> status, error |-> error, failed |-> failed, cones |-> <<>>,
   isNull |-> FALSE, n |-> 0, sent |-> "", stats |-> NoStats, hist |-> NoHist,
   args |-> <<>>]

\* who a response goes to when no middleware ran: a public route, and a
\* call made inside the server process
Public(h) == [h |-> h, ok |-> TRUE, uid |-> NoUser, touched |-> FALSE]
Inside(userId) == [h |-> "-", ok |-> TRUE, uid |-> userId, touched |-> TRUE]

\* ------------------------------------------------------- authentication
\* The Authorization header of a request: none at all, one that does not
\* start with 'Bearer ', a bearer token that fails verification, or a
\* valid bearer token of a principal (the header is then the uid).
Headers == {"none", "basic", "bad"} \cup Users

\* authenticateUser with a token that is decoded but never verified
authenticateUserUnverified(h, f) ==
  IF h \in {"none", "basic"}
  THEN [h |-> h, ok |-> FALSE, uid |-> NoUser, status |-> 401, error |-> "No token provided",
        failed |-> "", users |-> users, touched |-> FALSE]
  ELSE LET uid == IF h = "bad" THEN "u1" ELSE h
       IN [h |-> h, ok |-> TRUE, uid |-> uid, status |-> 0, error |-> "", failed |-> "",
           users |-> users \cup {uid}, touched |-> TRUE]

\* server.ts authenticateUser; f names the upstream call that fails
authenticateUser(h, f) ==
  IF h \in {"none", "basic"}
  THEN [h |-> h, ok |-> FALSE, uid |-> NoUser, status |-> 401, error |-> "No token provided",
        failed |-> "", users |-> users, touched |-> FALSE]
  ELSE IF h = "bad"
  THEN [h |-> h, ok |-> FALSE, uid |-> NoUser, status |-> 401, error |-> "Invalid token",
        failed |-> "", users |-> users, touched |-> FALSE]
  ELSE IF f = "verifyIdToken"
  THEN [h |-> h, ok |-> FALSE, uid |-> NoUser, status |-> 401, error |-> "Invalid token",
        failed |-> "verifyIdToken", users |-> users, touched |-> FALSE]
  ELSE IF f = "getUser"
  THEN [h |-> h, ok |-> FALSE, uid |-> NoUser, status |-> 401, error |-> "Invalid token",
        failed |-> "getUser", users |-> users, touched |-> TRUE]
  ELSE IF h \notin users /\ f = "createUser"
  THEN [h |-> h, ok |-> FALSE, uid |-> NoUser, status |-> 401, error |-> "Invalid token",
        failed |-> "createUser", users |-> users, touched |-> TRUE]
  ELSE [h |-> h, ok |-> TRUE, uid |-> h, status |-> 0, error |-> "", failed |-> "",
        users |-> users \cup {h}, touched |-> TRUE]

\* the request gets no further: the middleware answered, or the handler
\* found no req.user
Denied(a) == ~a.ok \/ a.uid = NoUser

Rejected(a, op, id) ==
  /\ resp' = IF ~a.ok THEN Reply(op, a, id, a.status, a.error, a.failed)
             ELSE Reply(op, a, id, 401, "User not authenticated", "")
  /\ users' = a.users
  /\ UNCHANGED <<cones, nextId, now, norm>>

\* ------------------------------------------------------ Database queries
\* getCone without its check of the owner
getConeAnyOwner(store, userId, id) ==
  IF id \notin DOMAIN store THEN <<>>
  ELSE <<View(id, store[id])>>

\* database.ts getCone: null (<<>>) for a missing document or another owner
getCone(store, userId, id) ==
  IF id \notin DOMAIN store THEN <<>>
  ELSE IF store[id].userId # userId THEN <<>>
  ELSE <<View(id, store[id])>>

\* Firestore's order on the stored timestamp strings: "" sorts first, the
\* canonical ISO strings in the order of their instants, other text last
\* and a string with a zone offset where its wall time puts it ('+'
\* sorts before '.')
WallTime(raw) == IF IsZoned(raw) THEN NewDate(raw) + TzOffset ELSE raw

FsLess(a, b) ==
  IF a = b THEN FALSE
  ELSE IF a = Empty THEN TRUE
  ELSE IF b = Empty THEN FALSE
  ELSE IF a = Garbage THEN FALSE
  ELSE IF b = Garbage THEN TRUE
  ELSE IF WallTime(a) # WallTime(b) THEN WallTime(a) < WallTime(b)
  ELSE IsZoned(a)

RECURSIVE orderByTimestampDesc(_, _)
orderByTimestampDesc(store, S) ==
  IF S = {} THEN <<>>
  ELSE LET m == CHOOSE i \in S : \A j \in S \ {i} :
                  \/ FsLess(store[j].timestamp, store[i].timestamp)
                  \/ (store[j].timestamp = store[i].timestamp /\ j < i)
       IN <<View(m, store[m])>> \o orderByTimestampDesc(store, S \ {m})

\* the unordered query returns the documents by ascending id
RECURSIVE unordered(_, _)
unordered(store, S) ==
  IF S = {} THEN <<>>
  ELSE LET m == CHOOSE i \in S : \A j \in S : i <= j
       IN <<View(m, store[m])>> \o unordered(store, S \ {m})

\* (a, b) => new Date(b.timestamp).getTime() - new Date(a.timestamp).getTime()
\* a NaN result is read as 0 by Array.prototype.sort
compareDesc(a, b) ==
  LET ta == NewDate(a.timestamp)
      tb == NewDate(b.timestamp)
  IN IF ta = NaN \/ tb = NaN THEN 0 ELSE tb - ta

\* Array.prototype.sort on a short array: a stable insertion sort
RECURSIVE insertDesc(_, _)
insertDesc(sorted, x) ==
  IF sorted = <<>> THEN <<x>>
  ELSE IF compareDesc(sorted[Len(sorted)], x) > 0
       THEN insertDesc(SubSeq(sorted, 1, Len(sorted) - 1), x) \o <<sorted[Len(sorted)]>>
       ELSE sorted \o <<x>>

RECURSIVE sortDesc(_)
sortDesc(list) ==
  IF list = <<>> THEN <<>>
  ELSE insertDesc(sortDesc(SubSeq(list, 1, Len(list) - 1)), list[Len(list)])

\* database.ts getAllCones: the ordered query, or without its index the
\* unordered query sorted in memory
getAllCones(store, userId, indexed) ==
  LET S == {i \in DOMAIN store : store[i].userId = userId} IN
  IF indexed THEN orderByTimestampDesc(store, S) ELSE sortDesc(unordered(store, S))

\* getConesByDateRange with date < endDate for date <= endDate
getConesBeforeEnd(store, userId, startDate, endDate, indexed) ==
  LET S == {i \in DOMAIN store : /\ store[i].userId = userId
                                 /\ store[i].date >= startDate
                                 /\ store[i].date < endDate} IN
  IF indexed THEN orderByTimestampDesc(store, S) ELSE sortDesc(unordered(store, S))

\* database.ts getConesByDateRange
getConesByDateRange(store, userId, startDate, endDate, indexed) ==
  LET S == {i \in DOMAIN store : /\ store[i].userId = userId
                                 /\ store[i].date >= startDate
                                 /\ store[i].date <= endDate} IN
  IF indexed THEN orderByTimestampDesc(store, S) ELSE sortDesc(unordered(store, S))


\* ------------------------------------------------------ stats, analysis
\* the first days of the months of 1970, as day numbers
MonthStarts == {0, 31, 59, 90, 120, 151, 181, 212, 243, 273, 304, 334}
MonthStartOf(day) ==
  CHOOSE m \in MonthStarts \cup {day} :
    /\ m <= day
    /\ \A k \in MonthStarts : k <= day => k <= m

CeilDiv(a, b) == IF a <= 0 THEN -((-a) \div b) ELSE (a + b - 1) \div b
Max(a, b) == IF a >= b THEN a ELSE b

\* getCount without the filter on userId
getCountAnyOwner(store, userId, op, value) ==
  Cardinality({i \in DOMAIN store :
    CASE op = "all" -> TRUE
      [] op = "==" -> store[i].date = value
      [] op = ">=" -> store[i].date >= value})

\* database.ts getCount: the size of a query on userId and, optionally, date
getCount(store, userId, op, value) ==
  Cardinality({i \in DOMAIN store :
    /\ store[i].userId = userId
    /\ CASE op = "all" -> TRUE
         [] op = "==" -> store[i].date = value
         [] op = ">=" -> store[i].date >= value})

\* database.ts getMinDate: null is Undef
getMinDate(store, userId) ==
  LET S == {i \in DOMAIN store : store[i].userId = userId} IN
  IF S = {} THEN Undef
  ELSE LET m == CHOOSE i \in S : \A j \in S : store[i].date <= store[j].date
       IN store[m].date

\* getStats with the week begun on Sunday
getStatsSundayWeek(store, userId, t) ==
  LET today == getDate(t)
      weekStart == today - getDay(t)
      total == getCount(store, userId, "all", 0)
  IN [total |-> total,
      today |-> getCount(store, userId, "==", today),
      thisWeek |-> getCount(store, userId, ">=", weekStart),
      thisMonth |-> getCount(store, userId, ">=", MonthStartOf(today)),
      perDay |-> <<0, 1>>, perWeek |-> <<0, 1>>, perMonth |-> <<0, 1>>]

\* database.ts getStats at wall-clock time t; an average is <<total, divisor>>
getStats(store, userId, t) ==
  LET today == getDate(t)
      weekday == (getDay(t) + 6) % DaysPerWeek
      weekStart == today - weekday
      monthStart == MonthStartOf(today)
      total == getCount(store, userId, "all", 0)
      minDateStr == getMinDate(store, userId)
      \* new Date("YYYY-MM-DD") is midnight UTC of that day
      startDate == minDateStr * HoursPerDay
      daysDiff == Max(1, CeilDiv(t - startDate, HoursPerDay))
      weeksDiff == Max(1, CeilDiv(daysDiff, 7))
      monthsDiff == Max(1, CeilDiv(daysDiff, 30))
      some == minDateStr # Undef /\ total > 0
  IN [total |-> total,
      today |-> getCount(store, userId, "==", today),
      thisWeek |-> getCount(store, userId, ">=", weekStart),
      thisMonth |-> getCount(store, userId, ">=", monthStart),
      perDay |-> IF some THEN <<total, daysDiff>> ELSE <<0, 1>>,
      perWeek |-> IF some THEN <<total, weeksDiff>> ELSE <<0, 1>>,
      perMonth |-> IF some THEN <<total, monthsDiff>> ELSE <<0, 1>>]

\* database.ts getAnalysis: sparse histograms, a key only where a count is
getAnalysis(store, userId) ==
  LET S == {i \in DOMAIN store : store[i].userId = userId}
      hours == {getHours(NewDate(store[i].timestamp)) : i \in S}
      names == {store[i].dayOfWeek : i \in S}
  IN [hourOfDay |-> [h \in hours |->
         Cardinality({i \in S : getHours(NewDate(store[i].timestamp)) = h})],
      dayOfWeek |-> [d \in names |->
         Cardinality({i \in S : store[i].dayOfWeek = d})]]

\* ----------------------------------------------------------------- Init
NoResp ==
  [op |-> "", auth |-> "-", user |-> NoUser, touched |-> FALSE, id |-> 0,
   status |-> 0, error |-> "", failed |-> "", cones |-> <<>>,
   isNull |-> FALSE, n |-> 0, sent |-> "", stats |-> NoStats, hist |-> NoHist,
   args |-> <<>>]

NormIdle == [pc |-> "idle", user |-> NoUser, staged |-> {}, at |-> 0]

\* no handler is between two awaits: of getStats the queries still out
\* and the results that are in, of PUT and DELETE the place in the handler
NoPend ==
  [stats |-> [pc |-> "idle", user |-> NoUser, at |-> 0, todo |-> {},
              got |-> [total |-> 0, today |-> 0, thisWeek |-> 0, thisMonth |-> 0,
                       minDate |-> Undef]],
   put |-> [pc |-> "idle", user |-> NoUser, id |-> 0, body |-> <<>>],
   del |-> [pc |-> "idle", user |-> NoUser, id |-> 0]]

\* no page of the frontend is open, and no ConeAPI call is under way
Unmounted ==
  [pc |-> "unmounted", retryCount |-> 0, isRetry |-> FALSE, seen |-> 0,
   error |-> FALSE, loaded |-> FALSE, auto |-> 0]
NoCall ==
  [pc |-> "idle", route |-> "", headers |-> "-", retryCount |-> 0, sent |-> 0,
   refreshed |-> 0, caught |-> 0, result |-> "", status |-> 0, before |-> {}]

Init ==
  /\ cones = <<>>
  /\ users = {}
  /\ nextId = 1
  /\ now = BeforeMidnight
  /\ resp = NoResp
  /\ norm = NormIdle
  /\ app = Unmounted
  /\ call = NoCall
  /\ pend = NoPend


\* -------------------------------------------------------- route handlers
\* Every action below is one request: authenticateUser, then the handler
\* of server.ts with the Database calls it makes.  h is the Authorization
\* header; f names the one upstream call that throws ("" for none).

\* GET /api/health and GET /api/mobile-health: no middleware, no store
Health(h) ==
  /\ resp' = Reply("GET /api/health", Public(h), 0, 200, "", "")
  /\ UNCHANGED <<cones, users, nextId, now, norm>>

MobileHealth(h) ==
  /\ resp' = Reply("GET /api/mobile-health", Public(h), 0, 200, "", "")
  /\ UNCHANGED <<cones, users, nextId, now, norm>>

\* GET /api/firebase-config: public; 500 when the environment lacks a value
FirebaseConfig(h, complete) ==
  /\ resp' = IF complete
             THEN Reply("GET /api/firebase-config", Public(h), 0, 200, "", "")
             ELSE Reply("GET /api/firebase-config", Public(h), 0, 500,
                        "Firebase configuration incomplete", "")
  /\ UNCHANGED <<cones, users, nextId, now, norm>>

\* GET /api/auth-test
AuthTest(h, f) ==
  LET a == authenticateUser(h, f) IN
  IF Denied(a) THEN Rejected(a, "GET /api/auth-test", 0)
  ELSE /\ resp' = Reply("GET /api/auth-test", a, 0, 200, "", "")
       /\ users' = a.users
       /\ UNCHANGED <<cones, nextId, now, norm>>

\* GET /api/cones
ListCones(h, f) ==
  LET a == authenticateUser(h, f) IN
  IF Denied(a) THEN Rejected(a, "GET /api/cones", 0)
  ELSE /\ resp' =
            IF f = "query"
            THEN Reply("GET /api/cones", a, 0, 500, "Failed to fetch cones", "query")
            ELSE [Reply("GET /api/cones", a, 0, 200, "", "")
                    EXCEPT !.cones = getAllCones(cones, a.uid, f # "orderBy")]
       /\ users' = a.users
       /\ UNCHANGED <<cones, nextId, now, norm>>

\* GET /api/cones/:id
GetCone(h, f, id) ==
  LET a == authenticateUser(h, f)
      cone == getCone(cones, a.uid, id)
  IN
  IF Denied(a) THEN Rejected(a, "GET /api/cones/:id", id)
  ELSE /\ resp' =
            IF f = "get"
            THEN Reply("GET /api/cones/:id", a, id, 500, "Failed to fetch cone", "get")
            ELSE IF cone = <<>>
            THEN Reply("GET /api/cones/:id", a, id, 404, "Cone not found", "")
            ELSE [Reply("GET /api/cones/:id", a, id, 200, "", "") EXCEPT !.cones = cone]
       /\ users' = a.users
       /\ UNCHANGED <<cones, nextId, now, norm>>

\* database.ts addCone: the document Firestore stores under a fresh id
addCone(store, id, userId, cone) ==
  store @@ (id :> [userId |-> userId, timestamp |-> cone.timestamp, date |-> cone.date,
                   time |-> cone.time, dayOfWeek |-> cone.dayOfWeek, notes |-> cone.notes,
                   createdAt |-> cone.createdAt, updatedAt |-> cone.updatedAt])

\* POST /api/cones with body {timestamp, notes}
PostCone(h, f, timestamp, notes) ==
  LET a == authenticateUser(h, f)
      date == IF Truthy(timestamp) THEN NewDate(timestamp) ELSE now
      fmt == formatDateTime(date)
      coneData == [timestamp |-> date, date |-> fmt.date, time |-> fmt.time,
                   dayOfWeek |-> fmt.dayOfWeek,
                   notes |-> IF TruthyS(notes) THEN notes ELSE "",
                   createdAt |-> now, updatedAt |-> now]
      added == addCone(cones, nextId, a.uid, coneData)
      reply(id, status, error, failed) ==
        [Reply("POST /api/cones", a, id, status, error, failed) EXCEPT !.args = <<timestamp>>]
  IN
  IF Denied(a) THEN Rejected(a, "POST /api/cones", 0)
  ELSE IF fmt.throws \/ f = "add"
  THEN /\ resp' = reply(0, 500, "Failed to add cone",
                       IF fmt.throws THEN "" ELSE "add")
       /\ users' = a.users
       /\ UNCHANGED <<cones, nextId, now, norm>>
  ELSE /\ nextId <= MaxCones
       /\ cones' = added
       /\ nextId' = nextId + 1
       /\ resp' =
            IF f = "get"
            THEN reply(nextId, 500, "Failed to add cone", "get")
            ELSE [reply(nextId, 201, "", "")
                    EXCEPT !.cones = getCone(added, a.uid, nextId)]
       /\ users' = a.users
       /\ UNCHANGED <<now, norm>>

\* the keys a PUT body may carry; Undef / UndefS: the key is not there
PutBody(timestamp, notes, date, time, dayOfWeek, userId) ==
  [timestamp |-> timestamp, notes |-> notes, date |-> date, time |-> time,
   dayOfWeek |-> dayOfWeek, userId |-> userId]

\* Firestore DocumentReference.update: the keys given replace the fields
update(doc, updates) ==
  [userId |-> IF updates.userId # UndefS THEN updates.userId ELSE doc.userId,
   timestamp |-> IF updates.timestamp # Undef THEN updates.timestamp ELSE doc.timestamp,
   date |-> IF updates.date # Undef THEN updates.date ELSE doc.date,
   time |-> IF updates.time # Undef THEN updates.time ELSE doc.time,
   dayOfWeek |-> IF updates.dayOfWeek # UndefS THEN updates.dayOfWeek ELSE doc.dayOfWeek,
   notes |-> IF updates.notes # UndefS THEN updates.notes ELSE doc.notes,
   createdAt |-> doc.createdAt,
   updatedAt |-> updates.updatedAt]

\* database.ts updateCone: FALSE for a missing document or another owner
updateCone(store, userId, id, updates, t) ==
  IF id \notin DOMAIN store THEN [ok |-> FALSE, store |-> store]
  ELSE IF store[id].userId # userId THEN [ok |-> FALSE, store |-> store]
  ELSE [ok |-> TRUE,
        store |-> [store EXCEPT ![id] = update(@, [updates EXCEPT !.updatedAt = t])]]

\* putUpdates that derives nothing and hands the body on as it came
putUpdatesAsGiven(body, t) ==
  [throws |-> FALSE,
   updates |-> [userId |-> body.userId, timestamp |-> body.timestamp,
                notes |-> body.notes, date |-> body.date, time |-> body.time,
                dayOfWeek |-> body.dayOfWeek, updatedAt |-> t]]

\* the handler's own changes to the body before it calls updateCone
putUpdates(body, t) ==
  LET fmt == formatDateTime(NewDate(body.timestamp))
      derive == Truthy(body.timestamp)
  IN [throws |-> derive /\ fmt.throws,
      updates |-> [userId |-> body.userId, timestamp |-> body.timestamp,
                   notes |-> body.notes,
                   date |-> IF derive THEN fmt.date ELSE body.date,
                   time |-> IF derive THEN fmt.time ELSE body.time,
                   dayOfWeek |-> IF derive THEN fmt.dayOfWeek ELSE body.dayOfWeek,
                   updatedAt |-> t]]

\* PUT /api/cones/:id
PutCone(h, f, id, body) ==
  LET a == authenticateUser(h, f)
      op == "PUT /api/cones/:id"
      existingCone == getCone(cones, a.uid, id)
      u == putUpdates(body, now)
      r == updateCone(cones, a.uid, id, u.updates, now)
      updatedCone == getCone(r.store, a.uid, id)
      reply(status, error, failed) ==
        [Reply(op, a, id, status, error, failed) EXCEPT !.args = <<body.timestamp, body>>]
  IN
  IF Denied(a) THEN Rejected(a, op, id)
  ELSE /\ users' = a.users
       /\ UNCHANGED <<nextId, now, norm>>
       /\ IF f = "get"
          THEN /\ resp' = reply(500, "Failed to update cone", "get")
               /\ UNCHANGED cones
          ELSE IF existingCone = <<>>
          THEN /\ resp' = reply(404, "Cone not found", "")
               /\ UNCHANGED cones
          ELSE IF u.throws \/ f = "update"
          THEN /\ resp' = reply(500, "Failed to update cone",
                               IF u.throws THEN "" ELSE "update")
               /\ UNCHANGED cones
          ELSE IF ~r.ok
          THEN /\ resp' = reply(400, "Failed to update cone", "")
               /\ UNCHANGED cones
          ELSE /\ cones' = r.store
               /\ resp' =
                    IF f = "reget"
                    THEN reply(500, "Failed to update cone", "reget")
                    ELSE [reply(200, "", "")
                            EXCEPT !.cones = updatedCone, !.isNull = (updatedCone = <<>>)]

\* deleteCone that answers true and leaves the document where it is
deleteConeKept(store, userId, id) ==
  IF id \notin DOMAIN store THEN [ok |-> FALSE, store |-> store]
  ELSE IF store[id].userId # userId THEN [ok |-> FALSE, store |-> store]
  ELSE [ok |-> TRUE, store |-> store]

\* database.ts deleteCone
deleteCone(store, userId, id) ==
  IF id \notin DOMAIN store THEN [ok |-> FALSE, store |-> store]
  ELSE IF store[id].userId # userId THEN [ok |-> FALSE, store |-> store]
  ELSE [ok |-> TRUE, store |-> [i \in DOMAIN store \ {id} |-> store[i]]]

\* DELETE /api/cones/:id
DeleteCone(h, f, id) ==
  LET a == authenticateUser(h, f)
      op == "DELETE /api/cones/:id"
      r == deleteCone(cones, a.uid, id)
  IN
  IF Denied(a) THEN Rejected(a, op, id)
  ELSE /\ users' = a.users
       /\ UNCHANGED <<nextId, now, norm>>
       /\ IF f \in {"get", "delete"}
          THEN /\ resp' = Reply(op, a, id, 500, "Failed to delete cone", f)
               /\ UNCHANGED cones
          ELSE IF ~r.ok
          THEN /\ resp' = Reply(op, a, id, 404, "Cone not found", "")
               /\ UNCHANGED cones
          ELSE /\ cones' = r.store
               /\ resp' = Reply(op, a, id, 200, "Cone deleted successfully", "")


\* GET /api/stats
Stats(h, f) ==
  LET a == authenticateUser(h, f)
      op == "GET /api/stats"
  IN
  IF Denied(a) THEN Rejected(a, op, 0)
  ELSE /\ resp' =
            IF f = "query"
            THEN Reply(op, a, 0, 500, "Failed to fetch statistics", "query")
            ELSE [Reply(op, a, 0, 200, "", "")
                    EXCEPT !.stats = getStats(cones, a.uid, now)]
       /\ users' = a.users
       /\ UNCHANGED <<cones, nextId, now, norm>>

\* GET /api/analysis
Analysis(h, f) ==
  LET a == authenticateUser(h, f)
      op == "GET /api/analysis"
  IN
  IF Denied(a) THEN Rejected(a, op, 0)
  ELSE /\ resp' =
            IF f = "query"
            THEN Reply(op, a, 0, 500, "Failed to fetch analysis", "query")
            ELSE [Reply(op, a, 0, 200, "", "")
                    EXCEPT !.hist = getAnalysis(cones, a.uid)]
       /\ users' = a.users
       /\ UNCHANGED <<cones, nextId, now, norm>>

\* GET /api/cones/range/:start/:end
RangeCones(h, f, start, end) ==
  LET a == authenticateUser(h, f)
      op == "GET /api/cones/range/:start/:end"
  IN
  IF Denied(a) THEN Rejected(a, op, 0)
  ELSE /\ resp' =
            IF f = "query"
            THEN [Reply(op, a, 0, 500, "Failed to fetch cones by date range", "query")
                    EXCEPT !.args = <<start, end>>]
            ELSE [Reply(op, a, 0, 200, "", "")
                    EXCEPT !.cones = getConesByDateRange(cones, a.uid, start, end,
                                                         f # "orderBy"),
                           !.args = <<start, end>>]
       /\ users' = a.users
       /\ UNCHANGED <<cones, nextId, now, norm>>

\* database.ts exportData: {cones, exportDate, version}
exportData(store, userId, indexed) == getAllCones(store, userId, indexed)

\* GET /api/export
Export(h, f) ==
  LET a == authenticateUser(h, f)
      op == "GET /api/export"
  IN
  IF Denied(a) THEN Rejected(a, op, 0)
  ELSE /\ resp' =
            IF f = "query"
            THEN Reply(op, a, 0, 500, "Failed to export data", "query")
            ELSE [Reply(op, a, 0, 200, "", "")
                    EXCEPT !.cones = exportData(cones, a.uid, f # "orderBy")]
       /\ users' = a.users
       /\ UNCHANGED <<cones, nextId, now, norm>>

\* ----------------------------------------------------------------- import
\* cleanCone that forgets the note
cleanConeNoNotes(cone, userId, t) ==
  [userId |-> userId, timestamp |-> cone.timestamp, date |-> cone.date,
   time |-> cone.time, dayOfWeek |-> cone.dayOfWeek, notes |-> "",
   createdAt |-> IF Truthy(cone.createdAt) THEN cone.createdAt
                 ELSE IF Truthy(cone.timestamp) THEN cone.timestamp ELSE t,
   updatedAt |-> t]

\* database.ts importData, the document built from one cone of the payload
cleanCone(cone, userId, t) ==
  [userId |-> userId,
   timestamp |-> cone.timestamp,
   date |-> cone.date,
   time |-> cone.time,
   dayOfWeek |-> cone.dayOfWeek,
   notes |-> IF TruthyS(cone.notes) THEN cone.notes ELSE "",
   createdAt |-> IF Truthy(cone.createdAt) THEN cone.createdAt
                 ELSE IF Truthy(cone.timestamp) THEN cone.timestamp ELSE t,
   updatedAt |-> t]

\* Firestore refuses a document that holds an undefined value
HasUndefined(doc) ==
  \/ doc.timestamp = Undef
  \/ doc.date = Undef
  \/ doc.time = Undef
  \/ doc.dayOfWeek = UndefS

\* database.ts importData: one batch.set per cone under a fresh id, then
\* one commit; whatever throws is caught and reported as success: false
importData(store, first, userId, list, t, commitFails) ==
  LET docs == [k \in 1..Len(list) |-> cleanCone(list[k], userId, t)]
      setThrows == \E k \in 1..Len(list) : HasUndefined(docs[k])
      commitThrows == Len(list) > 0 /\ commitFails
      batch == [i \in first..(first + Len(list) - 1) |-> docs[i - first + 1]]
  IN IF setThrows \/ commitThrows
     THEN [success |-> FALSE, importedCount |-> 0, store |-> store,
           failed |-> IF setThrows THEN "" ELSE "commit"]
     ELSE [success |-> TRUE, importedCount |-> Len(list), store |-> store @@ batch,
           failed |-> ""]

\* a request body of POST /api/import: kind says what data.cones is
ImportBody(kind, list, from) == [kind |-> kind, cones |-> list, from |-> from]

\* the ids an import may take: a payload a client writes stays within
\* MaxCones; an export can hold MaxCones events and its copy takes as many
\* ids again
IdCap(data) == IF data.from = "export" THEN MaxCones + MaxCones ELSE MaxCones

\* POST /api/import without the check of data.cones: the list that is not
\* there is read as the empty one
ImportUnchecked(h, f, data) ==
  LET a == authenticateUser(h, f)
      op == "POST /api/import"
      result == importData(cones, nextId, a.uid, data.cones, now, f = "commit")
  IN
  IF Denied(a) THEN Rejected(a, op, 0)
  ELSE /\ nextId + Len(data.cones) - 1 <= IdCap(data)
       /\ cones' = result.store
       /\ nextId' = IF result.success THEN nextId + Len(data.cones) ELSE nextId
       /\ resp' = [Reply(op, a, 0, 200,
                         IF result.success THEN "Successfully imported" ELSE "Import failed",
                         result.failed)
                     EXCEPT !.n = result.importedCount, !.sent = data.from,
                            !.args = <<data.kind>>]
       /\ users' = a.users
       /\ UNCHANGED <<now, norm>>

\* POST /api/import; args is what data.cones is
Import(h, f, data) ==
  LET a == authenticateUser(h, f)
      op == "POST /api/import"
      result == importData(cones, nextId, a.uid, data.cones, now, f = "commit")
  IN
  IF Denied(a) THEN Rejected(a, op, 0)
  ELSE IF data.kind # "array"
  THEN /\ resp' = [Reply(op, a, 0, 400, "Invalid import data format", "")
                     EXCEPT !.args = <<data.kind>>]
       /\ users' = a.users
       /\ UNCHANGED <<cones, nextId, now, norm>>
  ELSE /\ nextId + Len(data.cones) - 1 <= IdCap(data)
       /\ cones' = result.store
       /\ nextId' = IF result.success THEN nextId + Len(data.cones) ELSE nextId
       /\ resp' = [Reply(op, a, 0, 200,
                         IF result.success THEN "Successfully imported" ELSE "Import failed",
                         result.failed)
                     EXCEPT !.n = result.importedCount, !.sent = data.from,
                            !.args = <<data.kind>>]
       /\ users' = a.users
       /\ UNCHANGED <<now, norm>>


\* ------------------------------------------------------- normalization
\* stageUpdates without the comparison of stored and computed fields
stageEvery(store, userId) ==
  LET S == {i \in DOMAIN store : store[i].userId = userId}
  IN [throws |-> \E i \in S : computeFromTimestamp(store[i].timestamp).dayOfWeek = UndefS,
      staged |-> [i \in S |-> computeFromTimestamp(store[i].timestamp)]]

\* database.ts normalizeDateFields, the forEach over the query snapshot:
\* the documents whose stored fields differ from the computed ones are
\* staged in the batch; batch.update throws on an undefined dayOfWeek
stageUpdates(store, userId) ==
  LET S == {i \in DOMAIN store : store[i].userId = userId}
      differ == {i \in S : ~Consistent(store[i])}
  IN [throws |-> \E i \in differ : computeFromTimestamp(store[i].timestamp).dayOfWeek = UndefS,
      staged |-> [i \in differ |-> computeFromTimestamp(store[i].timestamp)]]

\* Firestore WriteBatch.commit of the staged updates: atomic, and it
\* fails as a whole when a staged document is gone
commitUpdates(store, staged, t) ==
  IF \E i \in DOMAIN staged : i \notin DOMAIN store
  THEN [ok |-> FALSE, store |-> store]
  ELSE [ok |-> TRUE,
        store |-> [i \in DOMAIN store |->
                     IF i \in DOMAIN staged
                     THEN [store[i] EXCEPT !.date = staged[i].date,
                                           !.time = staged[i].time,
                                           !.dayOfWeek = staged[i].dayOfWeek,
                                           !.updatedAt = t]
                     ELSE store[i]]]

\* the whole of normalizeDateFields(userId) on a store nobody else writes:
\* the count it returns (NaN when it throws) and the store it leaves
normalizeDateFields(store, userId, t, f) ==
  LET st == stageUpdates(store, userId)
      updated == Cardinality(DOMAIN st.staged)
      c == commitUpdates(store, st.staged, t)
  IN IF f = "query"
     THEN [returns |-> NaN, store |-> store, wrote |-> FALSE, failed |-> "query"]
     ELSE IF st.throws
     THEN [returns |-> NaN, store |-> store, wrote |-> FALSE, failed |-> ""]
     ELSE IF updated > 0 /\ (f = "commit" \/ ~c.ok)
     THEN [returns |-> NaN, store |-> store, wrote |-> FALSE, failed |-> "commit"]
     ELSE [returns |-> updated, store |-> IF updated > 0 THEN c.store ELSE store,
           wrote |-> updated > 0, failed |-> ""]

NormReply(userId, returns, failed) ==
  [Reply("normalizeDateFields", Inside(userId), 0, 0,
         IF returns = NaN THEN "threw" ELSE "", failed) EXCEPT !.n = returns]

\* one run of db.normalizeDateFields(userId), start to end
Normalize(u, f) ==
  LET r == normalizeDateFields(cones, u, now, f) IN
  /\ norm.pc = "idle"
  /\ cones' = r.store
  /\ resp' = NormReply(u, r.returns, r.failed)
  /\ UNCHANGED <<users, nextId, now, norm>>

\* the same run in its two awaits: the query with the staging of the
\* batch, and later the commit
NormQuery(u) ==
  LET st == stageUpdates(cones, u) IN
  /\ norm.pc = "idle"
  /\ IF st.throws
     THEN /\ resp' = NormReply(u, NaN, "")
          /\ UNCHANGED norm
     ELSE IF DOMAIN st.staged = {}
     THEN /\ resp' = NormReply(u, 0, "")
          /\ UNCHANGED norm
     ELSE /\ norm' = [pc |-> "commit", user |-> u, staged |-> st.staged, at |-> now]
          /\ UNCHANGED resp
  /\ UNCHANGED <<cones, users, nextId, now>>

NormCommit ==
  LET c == commitUpdates(cones, norm.staged, norm.at) IN
  /\ norm.pc = "commit"
  /\ cones' = c.store
  /\ resp' = NormReply(norm.user, IF c.ok THEN Cardinality(DOMAIN norm.staged) ELSE NaN,
                       IF c.ok THEN "" ELSE "commit")
  /\ norm' = NormIdle
  /\ UNCHANGED <<users, nextId, now>>

\* ------------------------------------------- the PostgreSQL Database
\* importData of the PostgreSQL Database: one INSERT per cone inside
\* BEGIN .. COMMIT; notes || null, the other columns as given and NOT NULL
rowPg(cone, userId) ==
  [userId |-> userId, timestamp |-> cone.timestamp, date |-> cone.date,
   time |-> cone.time, dayOfWeek |-> cone.dayOfWeek,
   notes |-> IF TruthyS(cone.notes) THEN cone.notes ELSE NullS,
   createdAt |-> cone.createdAt, updatedAt |-> cone.updatedAt]

NotNullPg(row) ==
  /\ row.timestamp # Undef
  /\ row.date # Undef
  /\ row.time # Undef
  /\ row.dayOfWeek \notin {UndefS, NullS}
  /\ row.createdAt # Undef
  /\ row.updatedAt # Undef

importDataPg(store, first, userId, list) ==
  LET rows == [k \in first..(first + Len(list) - 1) |-> rowPg(list[k - first + 1], userId)]
  IN IF \E k \in DOMAIN rows : ~NotNullPg(rows[k])
     THEN [success |-> FALSE, importedCount |-> 0, store |-> store]
     ELSE [success |-> TRUE, importedCount |-> Len(list), store |-> store @@ rows]

\* normalizeDateFields of the PostgreSQL Database: the rows of the owner
\* in the order of their ids, one UPDATE at a time outside a transaction.
\* done counts the UPDATEs that were applied; the UPDATE number failAt is
\* lost with the connection, and a NULL day_of_week is refused.
RECURSIVE updateRowsPg(_, _, _, _, _)
updateRowsPg(store, todo, done, failAt, t) ==
  IF todo = {} THEN [returns |-> done, store |-> store, applied |-> done, failed |-> ""]
  ELSE LET i == CHOOSE x \in todo : \A y \in todo : x <= y
           calc == computeFromTimestamp(store[i].timestamp)
       IN IF done + 1 = failAt
          THEN [returns |-> NaN, store |-> store, applied |-> done, failed |-> "update"]
          ELSE IF calc.dayOfWeek = UndefS
          THEN [returns |-> NaN, store |-> store, applied |-> done, failed |-> ""]
          ELSE updateRowsPg([store EXCEPT ![i].date = calc.date, ![i].time = calc.time,
                                          ![i].dayOfWeek = calc.dayOfWeek,
                                          ![i].updatedAt = t],
                            todo \ {i}, done + 1, failAt, t)

normalizeDateFieldsPg(store, userId, t, failAt) ==
  updateRowsPg(store,
               {i \in DOMAIN store : store[i].userId = userId /\ ~Consistent(store[i])},
               0, failAt, t)

\* db.importData(userId, data) on the PostgreSQL Database
ImportPg(u, list) ==
  LET r == importDataPg(cones, nextId, u, list) IN
  /\ nextId + Len(list) - 1 <= MaxCones
  /\ cones' = r.store
  /\ nextId' = nextId + Len(list)
  /\ resp' = [Reply("importData (PostgreSQL)", Inside(u), 0, 0,
                     IF r.success THEN "" ELSE "threw", "")
                 EXCEPT !.n = r.importedCount]
  /\ UNCHANGED <<users, now, norm>>

\* db.normalizeDateFields(userId) on the PostgreSQL Database; args is the
\* number of rows the run has updated in the table
NormalizePg(u, failAt) ==
  LET r == normalizeDateFieldsPg(cones, u, now, failAt) IN
  /\ cones' = r.store
  /\ resp' = [Reply("normalizeDateFields (PostgreSQL)", Inside(u), 0, 0,
                     IF r.returns = NaN THEN "threw" ELSE "", r.failed)
                 EXCEPT !.n = r.returns, !.args = <<r.applied>>]
  /\ UNCHANGED <<users, nextId, now, norm>>

\* ------------------------------------------------------- server process
\* server.ts top level: initializeFirebaseAdmin(), new Database(), the
\* middleware and routes, app.listen.  The store outlives the process.
Startup ==
  /\ resp' = Reply("startup", Inside(NoUser), 0, 0, "", "")
  /\ norm' = NormIdle
  /\ UNCHANGED <<cones, users, nextId, now>>

\* the wall clock moves on by an hour
Tick ==
  /\ now < BeforeMidnight + MaxTicks
  /\ now' = now + 1
  /\ UNCHANGED <<cones, users, nextId, resp, norm>>

\* ---------------------------------------------------------- the inputs
\* who asks: <<header, upstream call that fails>>.  The contexts the
\* middleware turns down, and those of a principal it lets through
Turned ==
  {<<h, "">> : h \in {"none", "basic", "bad"}}
  \cup {<<u, f>> : u \in Users, f \in {"verifyIdToken", "getUser", "createUser"}}
Passed(faults) == {<<u, f>> : u \in Users, f \in {""} \cup faults}

RawTimestamps == Instants \cup {Garbage, Undef}
Dates == {getDate(t) : t \in Instants}

\* bodies of PUT: an edit of the instant, of the note, and bodies that
\* carry other keys of the document
PutBodies ==
  {PutBody(ts, UndefS, Undef, Undef, UndefS, UndefS) : ts \in RawTimestamps}
  \cup {PutBody(Undef, n, Undef, Undef, UndefS, UndefS) : n \in {"a", NullS}}
  \cup {PutBody(Undef, UndefS, getDate(BeforeMidnight), Undef, UndefS, UndefS)}
  \cup {PutBody(Undef, UndefS, Undef, Undef, UndefS, u) : u \in Users}

\* cones of an import payload
PayloadCone(timestamp, date, time, dayOfWeek, notes) ==
  [id |-> 0, timestamp |-> timestamp, date |-> date, time |-> time,
   dayOfWeek |-> dayOfWeek, notes |-> notes, createdAt |-> Undef, updatedAt |-> Undef]

\* a cone whose date fields were cut from the UTC string (the legacy data)
UtcCone(t) == PayloadCone(t, getUTCDate(t), getUTCHours(t), days[getUTCDay(t) + 1], "a")

PayloadCones ==
  {UtcCone(AtMidnight),
   PayloadCone(Garbage, getUTCDate(AtMidnight), getUTCHours(AtMidnight), "Thursday", UndefS),
   PayloadCone(AtMidnight, Undef, Undef, UndefS, UndefS)}

RECURSIVE SeqsUpTo(_, _)
SeqsUpTo(S, n) ==
  IF n = 0 THEN {<<>>}
  ELSE LET shorter == SeqsUpTo(S, n - 1)
       IN shorter \cup {Append(q, x) : q \in shorter, x \in S}

\* what a client may post: a literal payload or a body without a cones list
ImportBodies ==
  {ImportBody("array", q, "client") : q \in SeqsUpTo(PayloadCones, MaxImport)}
  \cup {ImportBody("missing", <<>>, "client"), ImportBody("notArray", <<>>, "client")}

\* ------------------------------------------------------- specifications
\* the server takes the next request once the last response has left
Idle == resp.op = ""

\* a request that does not come from the browser this module follows
Serve == Idle /\ UNCHANGED <<app, call, pend>>

Deliver ==
  /\ ~Idle
  /\ resp' = NoResp
  /\ UNCHANGED <<cones, users, nextId, now, norm, app, call, pend>>

\* a principal who owns no event posts the export just given to
\* /api/import
Reimport ==
  /\ resp.op = "GET /api/export"
  /\ resp.status = 200
  /\ UNCHANGED <<app, call, pend>>
  /\ \E u \in Users :
       /\ OwnedBy(u) = {}
       /\ Import(u, "", ImportBody("array", resp.cones, "export"))

\* a request the middleware turns down is tried with one input per route
PostArgs ==
  {<<c[1], c[2], ts, "a">> : c \in Passed({"add", "get"}), ts \in RawTimestamps}
  \cup {<<c[1], c[2], Undef, UndefS>> : c \in Turned \cup Passed({})}
PutArgs ==
  {<<c[1], c[2], id, b>> : c \in Passed({"get", "update", "reget"}), id \in Ids, b \in PutBodies}
  \cup {<<c[1], c[2], 1, PutBody(Undef, "a", Undef, Undef, UndefS, UndefS)>> : c \in Turned}
RangeArgs ==
  {<<c[1], c[2], s, e>> : c \in Passed({"query", "orderBy"}), s \in Dates, e \in Dates}
  \cup {<<c[1], c[2], 0, 0>> : c \in Turned}
ImportArgs ==
  {<<c[1], c[2], d>> : c \in Passed({"commit"}), d \in ImportBodies}
  \cup {<<c[1], c[2], ImportBody("array", <<>>, "client")>> : c \in Turned}

Request ==
  \/ \E h \in Headers : Health(h)
  \/ \E h \in Headers : MobileHealth(h)
  \/ \E h \in Headers, c \in BOOLEAN : FirebaseConfig(h, c)
  \/ \E c \in Turned \cup Passed({}) : AuthTest(c[1], c[2])
  \/ \E c \in Turned \cup Passed({"query", "orderBy"}) : ListCones(c[1], c[2])
  \/ \E c \in Turned \cup Passed({"get"}), id \in Ids : GetCone(c[1], c[2], id)
  \/ \E a \in PostArgs : PostCone(a[1], a[2], a[3], a[4])
  \/ \E a \in PutArgs : PutCone(a[1], a[2], a[3], a[4])
  \/ \E c \in Turned \cup Passed({"get", "delete"}), id \in Ids : DeleteCone(c[1], c[2], id)
  \/ \E c \in Turned \cup Passed({"query"}) : Stats(c[1], c[2])
  \/ \E c \in Turned \cup Passed({"query"}) : Analysis(c[1], c[2])
  \/ \E a \in RangeArgs : RangeCones(a[1], a[2], a[3], a[4])
  \/ \E c \in Turned \cup Passed({"query", "orderBy"}) : Export(c[1], c[2])
  \/ \E a \in ImportArgs : Import(a[1], a[2], a[3])
  \/ \E u \in Users, f \in {"", "query", "commit"} : Normalize(u, f)
  \/ Startup

Next ==
  \/ Serve /\ Request
  \/ Deliver

Spec == Init /\ [][Next]_vars


\* A normalization run of one owner beside that owner's edits: the run is
\* taken in its two awaits, and between them PUT requests are served.
\* The edits are those of the API: of the instant, or of the note.
EditBodies ==
  {PutBody(ts, UndefS, Undef, Undef, UndefS, UndefS) : ts \in Instants}
  \cup {PutBody(Undef, "a", Undef, Undef, UndefS, UndefS)}

NextConc ==
  \/ /\ Serve
     /\ norm.pc = "idle"
     /\ \E u \in Users, d \in ImportBodies : Import(u, "", d)
  \/ /\ Serve
     /\ \E u \in Users, id \in Ids, b \in EditBodies : PutCone(u, "", id, b)
  \/ /\ Serve
     /\ \E u \in Users : NormQuery(u)
  \/ /\ Serve
     /\ NormCommit
  \/ Deliver

SpecConc == Init /\ [][NextConc]_vars


\* An export given back to the server: one principal makes events, by
\* POST and by import, and edits their notes, takes the export, and a
\* principal who owns nothing posts it to /api/import.
Exporter == "u1"
NoteBodies == {PutBody(Undef, n, Undef, Undef, UndefS, UndefS) : n \in {"a", NullS}}

NextRound ==
  \/ /\ Serve
     /\ \E ts \in Instants, n \in {"a", UndefS} : PostCone(Exporter, "", ts, n)
  \/ /\ Serve
     /\ \E d \in ImportBodies : Import(Exporter, "", d)
  \/ /\ Serve
     /\ \E id \in Ids, b \in NoteBodies : PutCone(Exporter, "", id, b)
  \/ /\ Serve
     /\ \E f \in {"", "orderBy"} : Export(Exporter, f)
  \/ Reimport
  \/ Deliver

SpecRound == Init /\ [][NextRound]_vars


\* Normalization runs as the clock moves on: events are made by POST and
\* by import, some with local fields that do not agree with the instant.
NextNorm ==
  \/ /\ Serve
     /\ \E u \in Users, ts \in Instants : PostCone(u, "", ts, UndefS)
  \/ /\ Serve
     /\ \E u \in Users, d \in ImportBodies : Import(u, "", d)
  \/ /\ Serve
     /\ \E u \in Users, f \in {"", "query", "commit"} : Normalize(u, f)
  \/ Serve /\ Tick
  \/ Deliver

SpecNorm == Init /\ [][NextNorm]_vars


\* The PostgreSQL Database: rows come in by importData, with created_at
\* and updated_at as an export carries them, and normalizeDateFields runs.
StampedCone(cone) == [cone EXCEPT !.createdAt = BeforeMidnight, !.updatedAt = BeforeMidnight]
PgCones ==
  {StampedCone(UtcCone(AtMidnight)),
   StampedCone(PayloadCone(AtMidnight, getDate(AtMidnight), getHours(AtMidnight),
                           DayName(getDay(AtMidnight)), "a")),
   StampedCone(PayloadCone(Garbage, getUTCDate(AtMidnight), getUTCHours(AtMidnight),
                           "Thursday", UndefS)),
   UtcCone(BeforeMidnight)}

NextPg ==
  \/ /\ Serve
     /\ \E u \in Users, q \in SeqsUpTo(PgCones, MaxImport) : ImportPg(u, q)
  \/ /\ Serve
     /\ \E u \in Users, failAt \in 0..MaxCones : NormalizePg(u, failAt)
  \/ Serve /\ Tick
  \/ Deliver

SpecPg == Init /\ [][NextPg]_vars


\* The list of an owner's events: events are posted, their instants are
\* edited with strings in either spelling, and the list is asked for with
\* and without the index of the ordered query.
Spellings == Instants \cup {Zoned(t) : t \in Instants}

NextList ==
  \/ /\ Serve
     /\ \E u \in Users, ts \in Instants : PostCone(u, "", ts, UndefS)
  \/ /\ Serve
     /\ \E u \in Users, id \in Ids, ts \in Spellings :
          PutCone(u, "", id, PutBody(ts, UndefS, Undef, Undef, UndefS, UndefS))
  \/ /\ Serve
     /\ \E u \in Users, id \in Ids : DeleteCone(u, "", id)
  \/ /\ Serve
     /\ \E u \in Users, f \in {"", "orderBy"} : ListCones(u, f)
  \/ Deliver

SpecList == Init /\ [][NextList]_vars


\* Statistics on any day: the server is taken on a day from 1970-01-01
\* into February, and events are posted with instants at local noon of
\* the days around a week's and a month's first day (1970-01-05 was a
\* Monday).
StatDays == {3, 4, 10, 11, 30, 31}
Noon(day) == day * HoursPerDay + 12 - TzOffset

InitStats ==
  /\ cones = <<>>
  /\ users = {}
  /\ nextId = 1
  /\ now \in {BeforeMidnight + d * HoursPerDay : d \in 0..MaxDay}
  /\ resp = NoResp
  /\ norm = NormIdle
  /\ app = Unmounted
  /\ call = NoCall
  /\ pend = NoPend

NextStats ==
  \/ /\ Serve
     /\ \E u \in Users, d \in StatDays : PostCone(u, "", Noon(d), UndefS)
  \/ /\ Serve
     /\ \E u \in Users, f \in {"", "query"} : Stats(u, f)
  \/ Deliver

SpecStats == InitStats /\ [][NextStats]_vars


\* Range queries: events are posted for the days of StatDays and the
\* range route is asked with every pair of those days.
NextRange ==
  \/ /\ Serve
     /\ \E u \in Users, d \in StatDays : PostCone(u, "", Noon(d), UndefS)
  \/ /\ Serve
     /\ \E u \in Users, f \in {"", "orderBy", "query"}, s \in StatDays, e \in StatDays :
          RangeCones(u, f, s, e)
  \/ Deliver

SpecRange == Init /\ [][NextRange]_vars


\* Instants that do not parse: requests carry the empty string or other
\* text as the timestamp, and normalizeDateFields runs on what is stored.
Unparseable == {Garbage, Empty}

NextInstant ==
  \/ /\ Serve
     /\ \E u \in Users, ts \in Instants \cup Unparseable \cup {Undef} :
          PostCone(u, "", ts, UndefS)
  \/ /\ Serve
     /\ \E u \in Users, id \in Ids, ts \in Instants \cup Unparseable :
          PutCone(u, "", id, PutBody(ts, UndefS, Undef, Undef, UndefS, UndefS))
  \/ /\ Serve
     /\ \E u \in Users, d \in ImportBodies : Import(u, "", d)
  \/ /\ Serve
     /\ \E u \in Users : Normalize(u, "")
  \/ Deliver

SpecInstant == Init /\ [][NextInstant]_vars


\* Edits as the clock moves on: a principal's events are posted and then
\* edited by PUT bodies of the API, an instant in either spelling with or
\* without a note, or a note alone.
ApiBodies ==
  {PutBody(ts, n, Undef, Undef, UndefS, UndefS) : ts \in Spellings, n \in {UndefS, "b"}}
  \cup {PutBody(Undef, "b", Undef, Undef, UndefS, UndefS)}

NextEdit ==
  \/ /\ Serve
     /\ \E u \in Users, ts \in Instants : PostCone(u, "", ts, "a")
  \/ /\ Serve
     /\ \E u \in Users, id \in Ids, b \in ApiBodies : PutCone(u, "", id, b)
  \/ Serve /\ Tick
  \/ Deliver

SpecEdit == Init /\ [][NextEdit]_vars


\* Averages at either end of a local day: the server is taken at 23:00
\* and at 00:00 local time of the days of SpecStats, events are posted for
\* the days of StatDays and /api/stats is asked.
InitAvg ==
  /\ cones = <<>>
  /\ users = {}
  /\ nextId = 1
  /\ now \in {t + d * HoursPerDay : t \in Instants, d \in 0..MaxDay}
  /\ resp = NoResp
  /\ norm = NormIdle
  /\ app = Unmounted
  /\ call = NoCall
  /\ pend = NoPend

SpecAvg == InitAvg /\ [][NextStats]_vars


\* The two derivers side by side: events are written by POST and by PUT
\* with instants in either spelling, legacy events come in by import, and
\* normalizeDateFields runs.
NextDerive ==
  \/ /\ Serve
     /\ \E u \in Users, ts \in Instants \cup {Undef} : PostCone(u, "", ts, UndefS)
  \/ /\ Serve
     /\ \E u \in Users, id \in Ids, ts \in Spellings :
          PutCone(u, "", id, PutBody(ts, UndefS, Undef, Undef, UndefS, UndefS))
  \/ /\ Serve
     /\ \E u \in Users : Import(u, "", ImportBody("array", <<UtcCone(AtMidnight)>>, "client"))
  \/ /\ Serve
     /\ \E u \in Users : Normalize(u, "")
  \/ Deliver

SpecDerive == Init /\ [][NextDerive]_vars


\* ------------------------------------------- handlers taken await by await
\* database.ts getStats: the averages from the count and the earliest date
averages(total, minDateStr, t) ==
  LET startDate == minDateStr * HoursPerDay
      daysDiff == Max(1, CeilDiv(t - startDate, HoursPerDay))
      some == minDateStr # Undef /\ total > 0
  IN [perDay |-> IF some THEN <<total, daysDiff>> ELSE <<0, 1>>,
      perWeek |-> IF some THEN <<total, Max(1, CeilDiv(daysDiff, 7))>> ELSE <<0, 1>>,
      perMonth |-> IF some THEN <<total, Max(1, CeilDiv(daysDiff, 30))>> ELSE <<0, 1>>]

\* GET /api/stats comes in: getStats reads the clock and sends its five
\* queries with Promise.all
StatsBegin(h) ==
  LET a == authenticateUser(h, "") IN
  /\ pend.stats.pc = "idle"
  /\ ~Denied(a)
  /\ users' = a.users
  /\ pend' = [pend EXCEPT !.stats = [@ EXCEPT !.pc = "queries", !.user = a.uid, !.at = now,
                 !.todo = {"total", "today", "thisWeek", "thisMonth", "minDate"}]]
  /\ UNCHANGED <<cones, nextId, now, resp, norm, app, call>>

\* one of the five queries is answered from the store as it is now
StatsQuery(q) ==
  LET run == pend.stats
      today == getDate(run.at)
      weekStart == today - ((getDay(run.at) + 6) % DaysPerWeek)
      answer == CASE q = "total" -> getCount(cones, run.user, "all", 0)
                  [] q = "today" -> getCount(cones, run.user, "==", today)
                  [] q = "thisWeek" -> getCount(cones, run.user, ">=", weekStart)
                  [] q = "thisMonth" -> getCount(cones, run.user, ">=", MonthStartOf(today))
                  [] q = "minDate" -> getMinDate(cones, run.user)
  IN /\ run.pc = "queries"
     /\ q \in run.todo
     /\ pend' = [pend EXCEPT !.stats.todo = @ \ {q}, !.stats.got[q] = answer]
     /\ UNCHANGED <<cones, users, nextId, now, resp, norm, app, call>>

\* all five are in: getStats returns and the handler answers
StatsEnd ==
  LET run == pend.stats
      avg == averages(run.got.total, run.got.minDate, run.at)
      a == [h |-> run.user, uid |-> run.user, touched |-> TRUE]
  IN /\ run.pc = "queries"
     /\ run.todo = {}
     /\ Idle
     /\ resp' = [Reply("GET /api/stats", a, 0, 200, "", "") EXCEPT !.stats =
                   [total |-> run.got.total, today |-> run.got.today,
                    thisWeek |-> run.got.thisWeek, thisMonth |-> run.got.thisMonth,
                    perDay |-> avg.perDay, perWeek |-> avg.perWeek,
                    perMonth |-> avg.perMonth]]
     /\ pend' = [pend EXCEPT !.stats = NoPend.stats]
     /\ UNCHANGED <<cones, users, nextId, now, norm, app, call>>

\* PUT /api/cones/:id comes in: the handler's getCone, and its changes to
\* the body; updateCone is called and awaits coneRef.get()
PutBegin(h, id, body) ==
  LET a == authenticateUser(h, "")
      u == putUpdates(body, now)
      reply(status, error) ==
        [Reply("PUT /api/cones/:id", a, id, status, error, "")
           EXCEPT !.args = <<body.timestamp, body>>]
  IN /\ pend.put.pc = "idle"
     /\ ~Denied(a)
     /\ users' = a.users
     /\ IF getCone(cones, a.uid, id) = <<>> \/ u.throws
        THEN /\ Idle
             /\ resp' = IF u.throws THEN reply(500, "Failed to update cone")
                        ELSE reply(404, "Cone not found")
             /\ UNCHANGED pend
        ELSE /\ pend' = [pend EXCEPT !.put = [pc |-> "get", user |-> a.uid, id |-> id,
                                              body |-> body]]
             /\ UNCHANGED resp
     /\ UNCHANGED <<cones, nextId, now, norm, app, call>>

\* the handler goes on after an await: after coneRef.get() of updateCone,
\* after coneRef.update(), which fails for a document that is gone, and
\* after the getCone whose result is the response
PutResume ==
  LET run == pend.put
      a == [h |-> run.user, uid |-> run.user, touched |-> TRUE]
      u == putUpdates(run.body, now)
      updatedCone == getCone(cones, run.user, run.id)
      reply(status, error) ==
        [Reply("PUT /api/cones/:id", a, run.id, status, error, "")
           EXCEPT !.args = <<run.body.timestamp, run.body>>]
  IN /\ run.pc # "idle"
     /\ CASE run.pc = "get" ->
               IF run.id \in DOMAIN cones /\ cones[run.id].userId = run.user
               THEN /\ pend' = [pend EXCEPT !.put.pc = "update"]
                    /\ UNCHANGED <<cones, resp>>
               ELSE /\ Idle
                    /\ resp' = reply(400, "Failed to update cone")
                    /\ pend' = [pend EXCEPT !.put = NoPend.put]
                    /\ UNCHANGED cones
          [] run.pc = "update" ->
               IF run.id \in DOMAIN cones
               THEN /\ cones' = [cones EXCEPT ![run.id] =
                                   update(@, [u.updates EXCEPT !.updatedAt = now])]
                    /\ pend' = [pend EXCEPT !.put.pc = "reget"]
                    /\ UNCHANGED resp
               ELSE /\ Idle
                    /\ resp' = reply(500, "Failed to update cone")
                    /\ pend' = [pend EXCEPT !.put = NoPend.put]
                    /\ UNCHANGED cones
          [] run.pc = "reget" ->
               /\ Idle
               /\ resp' = [reply(200, "") EXCEPT !.cones = updatedCone,
                                                 !.isNull = (updatedCone = <<>>)]
               /\ pend' = [pend EXCEPT !.put = NoPend.put]
               /\ UNCHANGED cones
     /\ UNCHANGED <<users, nextId, now, norm, app, call>>

\* DELETE /api/cones/:id comes in: deleteCone awaits coneRef.get()
DelBegin(h, id) ==
  LET a == authenticateUser(h, "") IN
  /\ pend.del.pc = "idle"
  /\ ~Denied(a)
  /\ users' = a.users
  /\ IF id \in DOMAIN cones /\ cones[id].userId = a.uid
     THEN /\ pend' = [pend EXCEPT !.del = [pc |-> "delete", user |-> a.uid, id |-> id]]
          /\ UNCHANGED resp
     ELSE /\ Idle
          /\ resp' = Reply("DELETE /api/cones/:id", a, id, 404, "Cone not found", "")
          /\ UNCHANGED pend
  /\ UNCHANGED <<cones, nextId, now, norm, app, call>>

\* coneRef.delete(), which succeeds also for a document that is gone, and
\* the response
DelResume ==
  LET run == pend.del
      a == [h |-> run.user, uid |-> run.user, touched |-> TRUE]
  IN /\ run.pc = "delete"
     /\ Idle
     /\ cones' = [i \in DOMAIN cones \ {run.id} |-> cones[i]]
     /\ resp' = Reply("DELETE /api/cones/:id", a, run.id, 200, "Cone deleted successfully", "")
     /\ pend' = [pend EXCEPT !.del = NoPend.del]
     /\ UNCHANGED <<users, nextId, now, norm, app, call>>

\* An edit beside a delete: events are posted, and PUT and DELETE
\* requests of their owners are handled await by await.
NextPutDel ==
  \/ /\ Serve
     /\ \E u \in Users : PostCone(u, "", Undef, UndefS)
  \/ \E u \in Users, id \in Ids, b \in EditBodies : PutBegin(u, id, b)
  \/ PutResume
  \/ \E u \in Users, id \in Ids : DelBegin(u, id)
  \/ DelResume
  \/ Deliver

SpecPutDel == Init /\ [][NextPutDel]_vars


\* /api/stats beside the writes of the same owner: POST, DELETE and
\* import requests are served while the queries of getStats are out
NextStatsConc ==
  \/ \E u \in Users : StatsBegin(u)
  \/ \E q \in DOMAIN NoPend.stats.got : StatsQuery(q)
  \/ StatsEnd
  \/ /\ Serve
     /\ \E u \in Users : PostCone(u, "", Undef, UndefS)
  \/ /\ Serve
     /\ \E u \in Users, id \in Ids : DeleteCone(u, "", id)
  \/ /\ Serve
     /\ \E u \in Users : Import(u, "", ImportBody("array", <<UtcCone(AtMidnight)>>, "client"))
  \/ Deliver

SpecStatsConc == Init /\ [][NextStatsConc]_vars


\* ----------------------------------------------------------- the browser
\* App.tsx, AppContent.  fetchData is a closure of the render that made
\* it: 'seen' is the retryCount that render had, which the calls of
\* setRetryCount do not change for a fetchData already made or for the
\* timer it set.  The three requests of Promise.all are taken by their
\* outcome.  pc: "loading" while isLoading, "timer" while the setTimeout
\* of the auto-retry is pending, "shown" when a failed load has set no
\* timer, "ready" after a load.  auto counts the fetchData(true) calls
\* since the last fetchData(); loaded: stats and cones have been set.
AutoRetries == 3

fetchData(a, isRetry, seen) ==
  [a EXCEPT !.pc = "loading", !.error = FALSE, !.isRetry = isRetry, !.seen = seen]

\* useEffect(() => { fetchData(); }, []) of the first render
Mount ==
  /\ app.pc = "unmounted"
  /\ app' = fetchData(app, FALSE, app.retryCount)
  /\ UNCHANGED <<cones, users, nextId, now, resp, norm, call, pend>>

\* the catch of fetchData
LoadFails ==
  /\ app.pc = "loading"
  /\ app' = IF ~app.isRetry /\ app.seen < AutoRetries
            THEN [app EXCEPT !.error = TRUE, !.retryCount = app.seen + 1, !.pc = "timer"]
            ELSE [app EXCEPT !.error = TRUE, !.pc = "shown"]
  /\ UNCHANGED <<cones, users, nextId, now, resp, norm, call, pend>>

LoadSucceeds ==
  /\ app.pc = "loading"
  /\ app' = [app EXCEPT !.retryCount = 0, !.pc = "ready", !.loaded = TRUE]
  /\ UNCHANGED <<cones, users, nextId, now, resp, norm, call, pend>>

\* setTimeout(() => { fetchData(true); }, 2000)
TimerFires ==
  /\ app.pc = "timer"
  /\ app' = [fetchData(app, TRUE, app.seen) EXCEPT !.auto = @ + 1]
  /\ UNCHANGED <<cones, users, nextId, now, resp, norm, call, pend>>

\* the Retry button of the error view, which is there when a load has
\* failed and none has succeeded
handleRetry ==
  /\ app.pc = "shown"
  /\ ~app.loaded
  /\ app' = [fetchData(app, FALSE, app.retryCount) EXCEPT !.retryCount = 0, !.auto = 0]
  /\ UNCHANGED <<cones, users, nextId, now, resp, norm, call, pend>>

\* handleConeAdded, handleConeUpdated, handleDataImported
handleConeAdded ==
  /\ app.pc \in {"ready", "shown"}
  /\ app.loaded
  /\ app' = [fetchData(app, FALSE, app.retryCount) EXCEPT !.auto = 0]
  /\ UNCHANGED <<cones, users, nextId, now, resp, norm, call, pend>>

\* api.ts.  A call of ConeAPI.addCone or ConeAPI.getAllCones: getAuthHeaders
\* and then fetchWithRetry.  sent counts the calls of fetch, refreshed the
\* calls of getAuthHeaders(1), caught the re-requests of the catch; before
\* is the store's documents when the call began.
MaxCatch == 2

Routes == {"POST /api/cones", "GET /api/cones"}

\* the catch of fetchWithRetry, with the retryCount of the call that threw
catchOnceMore(c) ==
  IF c.retryCount < MaxCatch + 1
  THEN [c EXCEPT !.retryCount = @ + 1, !.caught = @ + 1, !.pc = "fetch"]
  ELSE [c EXCEPT !.pc = "done", !.result = "error"]

catch(c) ==
  IF c.retryCount < MaxCatch
  THEN [c EXCEPT !.retryCount = @ + 1, !.caught = @ + 1, !.pc = "fetch"]
  ELSE [c EXCEPT !.pc = "done", !.result = "error"]

\* the method is called: getAuthHeaders() gives the headers or throws
CallStart(u, route, tokenOk) ==
  /\ call.pc = "idle"
  /\ call' = IF tokenOk
             THEN [NoCall EXCEPT !.pc = "fetch", !.route = route, !.headers = u,
                                 !.before = DOMAIN cones]
             ELSE [NoCall EXCEPT !.pc = "done", !.route = route, !.result = "error"]
  /\ UNCHANGED <<cones, users, nextId, now, resp, norm, app, pend>>

\* fetch rejects and the request never got to the server
FetchLost ==
  /\ call.pc = "fetch"
  /\ call' = catch([call EXCEPT !.sent = @ + 1])
  /\ UNCHANGED <<cones, users, nextId, now, resp, norm, app, pend>>

\* fetch: the request gets to the server, which handles it
FetchSend(f) ==
  /\ call.pc = "fetch"
  /\ Idle
  /\ IF call.route = "POST /api/cones"
     THEN PostCone(call.headers, f, Undef, UndefS)
     ELSE ListCones(call.headers, f)
  /\ call' = [call EXCEPT !.pc = "inflight", !.sent = @ + 1]
  /\ UNCHANGED <<app, pend>>

\* the response arrives: a 401 to the first request has the token
\* refreshed by getAuthHeaders(1), which is inside the try
Receive(tokenOk) ==
  /\ call.pc = "inflight"
  /\ resp' = NoResp
  /\ call' = IF resp.status = 401 /\ call.retryCount = 0
             THEN IF tokenOk
                  THEN [call EXCEPT !.pc = "fetch", !.retryCount = @ + 1,
                                    !.refreshed = @ + 1]
                  ELSE catch([call EXCEPT !.refreshed = @ + 1])
             ELSE [call EXCEPT !.pc = "done", !.result = "response",
                               !.status = resp.status]
  /\ UNCHANGED <<cones, users, nextId, now, norm, app, pend>>

\* the server has handled the request and fetch rejects
ResponseLost ==
  /\ call.pc = "inflight"
  /\ resp' = NoResp
  /\ call' = catch(call)
  /\ UNCHANGED <<cones, users, nextId, now, norm, app, pend>>

\* the method returns the response's JSON or throws
CallReturn ==
  /\ call.pc = "done"
  /\ call' = NoCall
  /\ UNCHANGED <<cones, users, nextId, now, resp, norm, app, pend>>

CallSteps ==
  \/ FetchLost
  \/ \E f \in {"", "verifyIdToken", "add"} : FetchSend(f)
  \/ \E tokenOk \in BOOLEAN : Receive(tokenOk)
  \/ ResponseLost

NextClient ==
  \/ Mount
  \/ LoadFails
  \/ LoadSucceeds
  \/ TimerFires
  \/ handleRetry
  \/ handleConeAdded
  \/ \E u \in Users, route \in Routes, tokenOk \in BOOLEAN : CallStart(u, route, tokenOk)
  \/ FetchLost
  \/ \E f \in {"", "verifyIdToken", "add"} : FetchSend(f)
  \/ \E tokenOk \in BOOLEAN : Receive(tokenOk)
  \/ ResponseLost
  \/ CallReturn

SpecClient == Init /\ [][NextClient]_vars

\* the event loop runs a continuation that is ready, and a fetch settles
SpecClientFair == SpecClient /\ WF_vars(CallSteps)


\* ================================================================ claims
ById == {"GET /api/cones/:id", "PUT /api/cones/:id", "DELETE /api/cones/:id"}
Lists == {"GET /api/cones", "GET /api/cones/range/:start/:end", "GET /api/export"}

RECURSIVE SumOf(_)
SumOf(hist) ==
  IF DOMAIN hist = {} THEN 0
  ELSE LET k == CHOOSE x \in DOMAIN hist : TRUE
       IN hist[k] + SumOf([x \in DOMAIN hist \ {k} |-> hist[x]])

AllConsistent == \A i \in DOMAIN cones : Consistent(cones[i])

\* C1: a GET, PUT or DELETE by principal A of an id that belongs to another
\* principal gets the answer of an id that does not exist (404, "Cone not
\* found"; 500 only when an upstream call failed), returns no event and
\* leaves the store as it was; and the list, range, export, stats and
\* analysis responses given to A hold and count only events A owns.
C1_OwnershipIsolation ==
  [][(Idle /\ resp'.user \in Users) =>
       /\ (/\ resp'.op \in ById
           /\ (resp'.id \notin DOMAIN cones \/ cones[resp'.id].userId # resp'.user))
          => /\ cones' = cones
             /\ resp'.cones = <<>>
             /\ resp'.status \in {404, 500}
             /\ resp'.failed = "" => (resp'.status = 404 /\ resp'.error = "Cone not found")
       /\ resp'.op \in Lists
          => \A k \in 1..Len(resp'.cones) :
               /\ resp'.cones[k].id \in DOMAIN cones
               /\ cones[resp'.cones[k].id].userId = resp'.user
       /\ (resp'.op = "GET /api/stats" /\ resp'.status = 200)
          => /\ resp'.stats.total = Cardinality(OwnedBy(resp'.user))
             /\ resp'.stats.today <= resp'.stats.total
             /\ resp'.stats.thisWeek <= resp'.stats.total
             /\ resp'.stats.thisMonth <= resp'.stats.total
       /\ (resp'.op = "GET /api/analysis" /\ resp'.status = 200)
          => /\ SumOf(resp'.hist.hourOfDay) = Cardinality(OwnedBy(resp'.user))
             /\ SumOf(resp'.hist.dayOfWeek) = Cardinality(OwnedBy(resp'.user))
  ]_vars

\* a PUT by one principal on an event of the other was answered 404
C1_Witness ==
  /\ resp.op = "PUT /api/cones/:id"
  /\ resp.status = 404
  /\ resp.user \in Users
  /\ resp.id \in DOMAIN cones
  /\ cones[resp.id].userId \in Users \ {resp.user}

\* C11: a run of normalizeDateFields for an owner adds and removes no
\* event, leaves every event of another owner and every event of the owner
\* whose local fields agree with its timestamp exactly as it was (updatedAt
\* included), and changes the timestamp, notes, userId and createdAt of no
\* event.
C11_NormalizeFrame ==
  [][(Idle /\ resp'.op = "normalizeDateFields") =>
       /\ DOMAIN cones' = DOMAIN cones
       /\ \A i \in DOMAIN cones :
            /\ (cones[i].userId # resp'.user \/ Consistent(cones[i]))
               => cones'[i] = cones[i]
            /\ cones'[i].timestamp = cones[i].timestamp
            /\ cones'[i].notes = cones[i].notes
            /\ cones'[i].userId = cones[i].userId
            /\ cones'[i].createdAt = cones[i].createdAt
  ]_vars

\* a run rewrote one event of an owner who has another, older event that
\* it left with its old updatedAt
C11_Witness ==
  /\ resp.op = "normalizeDateFields"
  /\ resp.n = 1
  /\ \E i, j \in OwnedBy(resp.user) :
       /\ cones[i].updatedAt < now
       /\ cones[j].updatedAt = now
       /\ cones[j].createdAt < now

\* C12: a run of the PostgreSQL normalizeDateFields that has updated rows
\* hands its caller the number of rows it updated, also when a later
\* UPDATE of the run failed.
C12_PartialFailureCount ==
  (resp.op = "normalizeDateFields (PostgreSQL)" /\ resp.args[1] >= 1)
  => resp.n = resp.args[1]

\* C13: the statistics of an owner without events are total, today,
\* thisWeek and thisMonth 0 and the three averages 0 over a divisor that is
\* not 0, with status 200.
C13_EmptyStats ==
  (/\ resp.op = "GET /api/stats"
   /\ resp.failed = ""
   /\ resp.user \in Users
   /\ OwnedBy(resp.user) = {})
  => /\ resp.status = 200
     /\ resp.stats.total = 0
     /\ resp.stats.today = 0
     /\ resp.stats.thisWeek = 0
     /\ resp.stats.thisMonth = 0
     /\ \A avg \in {resp.stats.perDay, resp.stats.perWeek, resp.stats.perMonth} :
          avg[1] = 0 /\ avg[2] >= 1

\* an owner without events got statistics while the other owner has some
C13_Witness ==
  /\ resp.op = "GET /api/stats"
  /\ resp.status = 200
  /\ resp.user \in Users
  /\ OwnedBy(resp.user) = {}
  /\ cones # <<>>
  /\ \E i \in DOMAIN cones : cones[i].date = getDate(now)

\* the most recent Monday, the Monday-started week and the month of a day
MondayOf(day) == CHOOSE d \in (day - DaysPerWeek + 1)..day : (d + EpochDay) % DaysPerWeek = 1
WeekOf(day) == (day + EpochDay - 1) \div DaysPerWeek
MonthOf(day) == Cardinality({m \in MonthStarts : m <= day})
DatedBy(u, D) == {i \in OwnedBy(u) : cones[i].date \in D}

C15_WindowCounts ==
  (resp.op = "GET /api/stats" /\ resp.status = 200)
  => LET today == getDate(now)
         mine == OwnedBy(resp.user)
     IN /\ resp.stats.today = Cardinality({i \in mine : cones[i].date = today})
        /\ resp.stats.thisWeek
             = Cardinality({i \in mine : WeekOf(cones[i].date) = WeekOf(today)})
        /\ resp.stats.thisMonth
             = Cardinality({i \in mine : MonthOf(cones[i].date) = MonthOf(today)})

\* C16: the hourOfDay histogram of an owner has as its keys exactly the
\* local hours 0..23 at which the owner has an event, each with the number
\* of the owner's events at that hour, which is never 0.
C16_HistogramBuckets ==
  (resp.op = "GET /api/analysis" /\ resp.status = 200)
  => LET mine == OwnedBy(resp.user)
         hourOf(i) == getHours(NewDate(cones[i].timestamp))
         H == resp.hist.hourOfDay
     IN /\ DOMAIN H \subseteq 0..(HoursPerDay - 1)
        /\ DOMAIN H = {hourOf(i) : i \in mine}
        /\ \A h \in DOMAIN H :
             H[h] >= 1 /\ H[h] = Cardinality({i \in mine : hourOf(i) = h})

\* C17: the list GET /api/cones gives an owner holds each of the owner's
\* events once and no other, and an event never comes before one of a
\* later instant, with the ordered query and with the in-memory sort.
C17_ListOrder ==
  (resp.op = "GET /api/cones" /\ resp.status = 200)
  => LET L == resp.cones
     IN /\ Len(L) = Cardinality(OwnedBy(resp.user))
        /\ {L[k].id : k \in 1..Len(L)} = OwnedBy(resp.user)
        /\ \A k, l \in 1..Len(L) :
             (/\ k < l
              /\ NewDate(L[k].timestamp) # NaN
              /\ NewDate(L[l].timestamp) # NaN)
             => NewDate(L[k].timestamp) >= NewDate(L[l].timestamp)

\* C18: the range route gives an owner exactly the owner's events whose
\* date d has start <= d <= end, each once, and nothing when start > end.
C18_RangeQuery ==
  (resp.op = "GET /api/cones/range/:start/:end" /\ resp.status = 200)
  => LET L == resp.cones
         start == resp.args[1]
         end == resp.args[2]
         within == {i \in OwnedBy(resp.user) : start <= cones[i].date /\ cones[i].date <= end}
     IN /\ {L[k].id : k \in 1..Len(L)} = within
        /\ Len(L) = Cardinality(within)
        /\ start > end => L = <<>>

\* a range of one day gave an owner the event of that day and not the
\* owner's event of another day
C18_Witness ==
  /\ resp.op = "GET /api/cones/range/:start/:end"
  /\ resp.status = 200
  /\ resp.args[1] = resp.args[2]
  /\ Len(resp.cones) = 1
  /\ resp.cones[1].date = resp.args[2]
  /\ Cardinality(OwnedBy(resp.user)) = 2

C20_InvalidInstantFails ==
  [][Idle =>
       /\ (/\ resp'.op \in {"POST /api/cones", "PUT /api/cones/:id"}
           /\ resp'.user \in Users
           /\ resp'.args[1] \in Unparseable)
          => (resp'.status >= 400 /\ cones' = cones)
       /\ resp'.op = "normalizeDateFields"
          => \A i \in DOMAIN cones :
               cones'[i] # cones[i] => NewDate(cones[i].timestamp) # NaN
  ]_vars

\* C21: a DELETE answered 200 was asked by the owner of the event, takes
\* exactly that event out of the store and lowers the owner's total by
\* one; an id that was handed out and is not in the store never comes
\* back, and for such an id a GET and a DELETE are answered 404 and no list
\* carries it, while the total of /stats is the number of events the owner
\* has in the store.
Destroyed(id) == id < nextId /\ id \notin DOMAIN cones
Served(op) == resp'.op = op /\ resp'.user \in Users /\ resp'.failed = ""

C21_DeleteDestroys ==
  [][/\ (Idle /\ resp'.op = "DELETE /api/cones/:id" /\ resp'.status = 200) =>
          /\ resp'.id \in OwnedBy(resp'.user)
          /\ cones' = [i \in DOMAIN cones \ {resp'.id} |-> cones[i]]
          /\ getCount(cones', resp'.user, "all", 0)
               = getCount(cones, resp'.user, "all", 0) - 1
     /\ \A id \in 1..nextId : Destroyed(id) => id \notin DOMAIN cones'
     /\ (Idle /\ Served("GET /api/cones/:id") /\ Destroyed(resp'.id)) => resp'.status = 404
     /\ (Idle /\ Served("DELETE /api/cones/:id") /\ Destroyed(resp'.id)) => resp'.status = 404
     /\ (Idle /\ Served("GET /api/cones")) =>
          \A k \in DOMAIN resp'.cones : ~Destroyed(resp'.cones[k].id)
     /\ (Idle /\ Served("GET /api/stats")) =>
          resp'.stats.total = Cardinality(OwnedBy(resp'.user))
  ]_vars

\* a second DELETE of a destroyed event is answered 404 while the owner
\* still has another event
C21_Witness ==
  /\ resp.op = "DELETE /api/cones/:id"
  /\ resp.user \in Users
  /\ resp.status = 404
  /\ Destroyed(resp.id)
  /\ OwnedBy(resp.user) # {}

\* C22: a PUT answered 200 whose body is an instant (with or without a
\* note) leaves in the store, under the same id, the event with the
\* timestamp of the body, the local fields formatDateTime gives for that
\* instant, the note of the body if there is one, and updatedAt at the
\* time of the edit; a PUT answered 200 whose body is a note alone changes
\* the note and updatedAt only; createdAt and the owner stay, no other
\* event changes, and the response carries the event as now stored.
IsEdit(b) ==
  /\ b.date = Undef /\ b.time = Undef /\ b.dayOfWeek = UndefS /\ b.userId = UndefS
  /\ (NewDate(b.timestamp) # NaN \/ (b.timestamp = Undef /\ b.notes # UndefS))

Edited(doc, b, t) ==
  LET fmt == formatDateTime(NewDate(b.timestamp)) IN
  IF b.timestamp = Undef
  THEN [doc EXCEPT !.notes = b.notes, !.updatedAt = t]
  ELSE [doc EXCEPT !.timestamp = b.timestamp, !.date = fmt.date, !.time = fmt.time,
                   !.dayOfWeek = fmt.dayOfWeek,
                   !.notes = IF b.notes = UndefS THEN @ ELSE b.notes,
                   !.updatedAt = t]

Differed ==
  IF norm.pc = "commit" THEN DOMAIN norm.staged
  ELSE {i \in OwnedBy(resp'.user) : ~Consistent(cones[i])}

C23_NormalizeResult ==
  [][(/\ resp.op = ""
      /\ resp'.op = "normalizeDateFields"
      /\ resp'.error = "") =>
       /\ resp'.n = Cardinality(Differed)
       /\ \A i \in DOMAIN cones : cones'[i] # cones[i] => i \in Differed
       /\ resp'.n = 0 => cones' = cones
       /\ \A i \in DOMAIN cones' :
            cones'[i].userId = resp'.user => Consistent(cones'[i])
  ]_vars

\* C24: in every /api/stats response for an owner who has events, with D
\* the days from the owner's earliest date to today, both counted,
\* averagePerDay is total over max(1, D) and averagePerWeek is total over
\* max(1, ceil(D / 7)), and no divisor is below 1.
EarliestDate(u) ==
  LET S == {cones[i].date : i \in OwnedBy(u)}
  IN CHOOSE d \in S : \A e \in S : d <= e

DaysInclusive(u) == getDate(now) - EarliestDate(u) + 1

C24_AverageDivisors ==
  (/\ resp.op = "GET /api/stats"
   /\ resp.status = 200
   /\ OwnedBy(resp.user) # {})
  => LET total == Cardinality(OwnedBy(resp.user))
         D == DaysInclusive(resp.user)
     IN /\ resp.stats.perDay = <<total, Max(1, D)>>
        /\ resp.stats.perWeek = <<total, Max(1, CeilDiv(D, DaysPerWeek))>>
        /\ resp.stats.perMonth[2] >= 1

\* C25: when a failed load of the dashboard has left the error on show
\* with no retry pending, fetchData has retried by itself AutoRetries
\* times since the last fetchData() that was not an auto-retry; while an
\* auto-retry loads, the counter on show is the number of that retry; and
\* after a load that succeeded the counter is 0.
C25_AutoRetryCount ==
  /\ app.pc = "shown" => app.auto = AutoRetries
  /\ (app.pc = "loading" /\ app.isRetry) => app.retryCount = app.auto
  /\ app.pc = "ready" => app.retryCount = 0

\* C26: for the timestamp of an event that POST has just stored, or PUT
\* with an instant, formatDateTime and computeFromTimestamp give the same
\* date, time and dayOfWeek, so the event's stored fields are those of
\* computeFromTimestamp, and a run of normalizeDateFields for its owner
\* that starts now neither stages the event nor, if it returns, leaves it
\* changed.
C26_DeriversAgree ==
  [][(/\ Idle
      /\ \/ resp'.op = "POST /api/cones" /\ resp'.status = 201
         \/ /\ resp'.op = "PUT /api/cones/:id" /\ resp'.status = 200
            /\ NewDate(resp'.args[1]) # NaN) =>
       LET doc == cones'[resp'.id]
           fmt == formatDateTime(NewDate(doc.timestamp))
           calc == computeFromTimestamp(doc.timestamp)
           run == normalizeDateFields(cones', resp'.user, now, "")
       IN /\ ~fmt.throws
          /\ fmt.date = calc.date /\ fmt.time = calc.time /\ fmt.dayOfWeek = calc.dayOfWeek
          /\ Consistent(doc)
          /\ resp'.id \notin DOMAIN stageUpdates(cones', resp'.user).staged
          /\ run.returns # NaN => run.store[resp'.id] = doc
  ]_vars

\* a run that counted nothing has returned for an owner who has an event
\* whose timestamp a PUT wrote with a zone offset
C26_Witness ==
  /\ resp.op = "normalizeDateFields"
  /\ resp.error = ""
  /\ resp.n = 0
  /\ \E i \in OwnedBy(resp.user) : IsZoned(cones[i].timestamp)

\* C27: in every /api/stats response today is at most thisWeek, thisWeek
\* at most total, and today at most thisMonth, thisMonth at most total.
C27_StatsConsistent ==
  (resp.op = "GET /api/stats" /\ resp.status = 200) =>
    /\ resp.stats.today <= resp.stats.thisWeek
    /\ resp.stats.thisWeek <= resp.stats.total
    /\ resp.stats.today <= resp.stats.thisMonth
    /\ resp.stats.thisMonth <= resp.stats.total

\* C28: no PUT is answered 200 with the JSON null for its body, and an
\* id that was handed out and is not in the store, as after a DELETE that
\* answered 200, is in the store in no later state.
C28_NoResurrection ==
  /\ [](resp.op = "PUT /api/cones/:id" /\ resp.status = 200 => ~resp.isNull)
  /\ [][\A id \in 1..nextId : Destroyed(id) => id \notin DOMAIN cones']_vars

\* C29: a call of fetchWithRetry makes at most MaxCatch + 1 requests, at
\* most one token refresh, and that only after a 401 to its first request,
\* and at most MaxCatch re-requests from its catch; a 401 received for a
\* re-request is what the call returns; and every call that has begun
\* ends, with a response or with an error.
C29_FetchBounded ==
  /\ [](/\ call.sent <= MaxCatch + 1
        /\ call.refreshed <= 1
        /\ call.caught <= MaxCatch
        /\ call.pc = "done" => call.result \in {"response", "error"})
  /\ [][call'.refreshed > call.refreshed =>
          (call.sent = 1 /\ call.retryCount = 0 /\ resp.status = 401)]_vars
  /\ [][(/\ call.pc = "inflight"
          /\ call.sent > 1
          /\ resp.status = 401
          /\ resp' = NoResp
          /\ call'.caught = call.caught
          /\ call'.result # "error") =>
         (call'.pc = "done" /\ call'.result = "response" /\ call'.status = 401)]_vars
  /\ (call.pc = "fetch" ~> call.pc = "done")

\* a call has ended with the response to its third request, after a 401
\* with a token refresh and a network error
C29_Witness ==
  /\ call.pc = "done"
  /\ call.result = "response"
  /\ call.sent = MaxCatch + 1
  /\ call.refreshed = 1
  /\ call.caught = 1

\* C30: while a call of ConeAPI.addCone is under way, and when it has
\* ended, the store holds at most one event that it did not hold when the
\* call began.
C30_AtMostOnce ==
  (call.route = "POST /api/cones" /\ call.pc # "idle")
  => Cardinality(DOMAIN cones \ call.before) <= 1

\* C2: in every reachable state the date, time and dayOfWeek of every
\* stored event are what computeFromTimestamp gives for its timestamp.
C2_LocalFieldInvariant == AllConsistent

\* C3: every stored event has a principal as its userId, a new event has
\* the userId of the principal whose request made it, and no step changes
\* the userId of an event that stays in the store.
C3_OwnerImmutable ==
  [][/\ \A i \in DOMAIN cones' : cones'[i].userId \in Users
     /\ \A i \in DOMAIN cones' \ DOMAIN cones : cones'[i].userId = resp'.user
     /\ \A i \in DOMAIN cones \cap DOMAIN cones' : cones'[i].userId = cones[i].userId
  ]_vars

\* the request came without a header, without 'Bearer ', or with a token
\* that verifyIdToken turned down
Unauthenticated(r) == r.auth \in {"none", "basic", "bad"} \/ r.failed = "verifyIdToken"

C5_NormalizeIdempotent ==
  (resp.op = "normalizeDateFields" /\ resp.failed = "") =>
    LET again == normalizeDateFields(cones, resp.user, now, "")
    IN /\ again.returns = 0
       /\ ~again.wrote
       /\ again.store = cones

\* C6: after an import that reports success the importer owns exactly
\* importedCount events.
C6_ImportReplaces ==
  (/\ resp.op = "POST /api/import"
   /\ resp.status = 200
   /\ resp.error = "Successfully imported")
  => Cardinality(OwnedBy(resp.user)) = resp.n

InstantNote(c) == <<c.timestamp, c.notes>>
InstantNoteRead(c) == <<c.timestamp, IF TruthyS(c.notes) THEN c.notes ELSE "">>

\* the step posts the export just given to /api/import, for a principal
\* who owns no event
RoundTripStep ==
  /\ resp.op = "GET /api/export"
  /\ resp'.op = "POST /api/import"
  /\ resp'.sent = "export"
  /\ OwnedBy(resp'.user) = {}

\* C7 as stated: the importer then owns as many events as were exported,
\* with the same multiset of (timestamp, notes).
C7_RoundTripExact ==
  [][RoundTripStep =>
       LET mine == {i \in DOMAIN cones' : cones'[i].userId = resp'.user}
           out == resp.cones
       IN /\ resp'.status = 200
          /\ resp'.n = Len(out)
          /\ Cardinality(mine) = Len(out)
          /\ \A k \in 1..Len(out) :
               Cardinality({j \in 1..Len(out) : InstantNote(out[j]) = InstantNote(out[k])})
               = Cardinality({i \in mine : InstantNote(cones'[i]) = InstantNote(out[k])})
  ]_vars

\* C7 as amended: the same, with a null note read as the empty note.
C7_RoundTrip ==
  [][RoundTripStep =>
       LET mine == {i \in DOMAIN cones' : cones'[i].userId = resp'.user}
           out == resp.cones
       IN /\ resp'.status = 200
          /\ resp'.n = Len(out)
          /\ Cardinality(mine) = Len(out)
          /\ \A k \in 1..Len(out) :
               Cardinality({j \in 1..Len(out) :
                              InstantNoteRead(out[j]) = InstantNoteRead(out[k])})
               = Cardinality({i \in mine :
                                InstantNoteRead(cones'[i]) = InstantNoteRead(out[k])})
  ]_vars

\* an export of two events with the same instant and note was imported by
\* a principal who owned nothing, and that principal now owns two such
C7_Witness ==
  /\ resp.op = "POST /api/import"
  /\ resp.sent = "export"
  /\ resp.n = 2
  /\ nextId = MaxCones + 3
  /\ \E i, j \in OwnedBy(resp.user) :
       /\ i # j
       /\ cones[i].notes = "a"
       /\ InstantNote(cones[i]) = InstantNote(cones[j])

\* C8: a request during which an upstream call failed is answered with a
\* 5xx status and an error body.
C8_UpstreamFailure5xx ==
  (resp.failed # "" /\ resp.op # "normalizeDateFields")
  => (resp.status >= 500 /\ resp.status < 600 /\ resp.error # "")

\* C9: once a normalization run of an owner has returned, with that
\* owner's edits served between its query and its commit, every event of
\* the owner has local fields that agree with its timestamp.
C9_NormalizeUnderEdits ==
  (resp.op = "normalizeDateFields" /\ resp.error = "")
  => \A i \in OwnedBy(resp.user) : Consistent(cones[i])

\* C10: when the server has started, every event in the store has local
\* fields that agree with its timestamp.
C10_StartupNormalization ==
  resp.op = "startup" => AllConsistent

====
